---- MODULE Spec2Model ----
(***************************************************************************)
(* State-machine model of the simulation core of flappy_bird.py: the bird  *)
(* physics, the pipe field, the scrolling base, the collision predicate    *)
(* and the main loop with its Playing / GameOver handling.                 *)
(*                                                                         *)
(* Numbers.  Bird.x, Bird.y and Bird.velocity are Python floats whose      *)
(* values are multiples of 0.05; they are held here as integers counting   *)
(* units of 1/Unit = 0.05 (GRAVITY 0.35 = 7, FLAP_STRENGTH -7.5 = -150).   *)
(* Pipe.x, Pipe.gap_y, the base offsets and the angle only ever hold       *)
(* whole numbers and are held in pixels / degrees.  int() is ToInt.        *)
(* The rounding of the float additions is modelled where a property is     *)
(* about exact values: fvel is Bird.velocity as the IEEE-754 double the    *)
(* code holds, kept by UpdateCall (see the section on doubles).            *)
(***************************************************************************)
EXTENDS Integers, Sequences, FiniteSets

\* ---------------------------------------------------------------- bounds
\* A flap key may arrive only in frames whose per-run tick count is a
\* multiple of FlapEvery.
FlapEvery == 20
\* No flap key arrives in a run after its first MaxTicks Playing ticks.
MaxTicks == 210
\* A run is simulated for at most FallTicks ticks past MaxTicks (no run
\* lasts that long without a flap).
FallTicks == 90
\* In LiveSpec no flap key arrives in a run after its first LiveFlapTicks
\* ticks.
LiveFlapTicks == 20
\* Numbers of calls the specifications of single methods make.
MaxUpdateCalls == 60
MaxFlapCalls == 2
MaxBaseCalls == 900
\* Number of gap centres sampled from random.randint's range (both ends
\* of the range are always among them).
NumGaps == 3

\* ------------------------------------------------------------- constants
Unit == 20
WIDTH == 400
HEIGHT == 600
PIPE_GAP == 160
PIPE_WIDTH == 70
PIPE_SPEED == 3
BIRD_RADIUS == 18
BIRD_X == 80
GRAVITY == 7
FLAP_STRENGTH == -150
BASE_HEIGHT == 80
FALL_CAP == 200
NOSE_UP_MAX == -25
TILT_UP_RATE == 5
NOSE_DOWN_MAX == 90
TILT_DOWN_RATE == 3
SPAWN_MARGIN == 70
SPAWN_THRESHOLD == 200

VARIABLES bird, pipes, base, score, high_score, game_over, running, pc,
          ticks, spawned, evicted, skipped, calls, fvel

vars == <<bird, pipes, base, score, high_score, game_over, running, pc,
          ticks, spawned, evicted, skipped, calls, fvel>>

\* ---------------------------------------------------------------- helpers
Min(a, b) == IF a < b THEN a ELSE b
Max(a, b) == IF a > b THEN a ELSE b

\* int(): truncation toward zero of a fixed-point value, giving pixels.
ToInt(u) == IF u >= 0 THEN u \div Unit ELSE -((-u) \div Unit)

Rect(x, y, w, h) == [x |-> x, y |-> y, w |-> w, h |-> h]

\* pygame.Rect.colliderect: strict overlap, never true for an empty rect.
colliderect(a, b) ==
    /\ a.w # 0 /\ a.h # 0 /\ b.w # 0 /\ b.h # 0
    /\ Min(a.x, a.x + a.w) < Max(b.x, b.x + b.w)
    /\ Min(a.y, a.y + a.h) < Max(b.y, b.y + b.h)
    /\ Max(a.x, a.x + a.w) > Min(b.x, b.x + b.w)
    /\ Max(a.y, a.y + a.h) > Min(b.y, b.y + b.h)

\* ---------------------------------------------------------------- doubles
\* A non-negative IEEE-754 double below 64, as the exact count of units of
\* 2^-54 it is worth, written in three limbs <<l0, l1, l2>> of 24 bits,
\* least significant first (every double in [2^-2, 2^6) and 0.0 is a whole
\* number of such units).
DBase == 16777216

DZero == <<0, 0, 0>>
\* The doubles nearest to 0.35 (0x3FD6666666666666) and 10.0.
GRAVITY_D == <<6710886, 6710886, 22>>
FALL_CAP_D == <<0, 0, 640>>

\* Exact sum of two unit counts.
DSum(a, b) ==
    LET s0 == a[1] + b[1]
        s1 == a[2] + b[2] + s0 \div DBase
    IN  <<s0 % DBase, s1 % DBase, a[3] + b[3] + s1 \div DBase>>

DLess(a, b) ==
    \/ a[3] < b[3]
    \/ a[3] = b[3] /\ a[2] < b[2]
    \/ a[3] = b[3] /\ a[2] = b[2] /\ a[1] < b[1]

\* Number of low bits that do not fit the 53-bit significand: v is in
\* [2^(d - 1), 2^d) for d >= 1 and l2 counts units of 2^-6.
DropBits(v) ==
    IF v[3] >= 2048 THEN 7
    ELSE IF v[3] >= 1024 THEN 6
    ELSE IF v[3] >= 512 THEN 5
    ELSE IF v[3] >= 256 THEN 4
    ELSE IF v[3] >= 128 THEN 3
    ELSE IF v[3] >= 64 THEN 2
    ELSE IF v[3] >= 32 THEN 1
    ELSE 0

\* Round-to-nearest-even of an exact unit count to a double.
DRound(v) ==
    LET d    == DropBits(v)
        p    == 2 ^ d
        r    == v[1] % p
        kept == <<v[1] - r, v[2], v[3]>>
        odd  == (v[1] \div p) % 2 = 1
        up   == d >= 1 /\ (2 * r > p \/ (2 * r = p /\ odd))
    IN  IF up THEN DSum(kept, <<p, 0, 0>>) ELSE kept

\* a + b and min(a, b) on doubles.
DAdd(a, b) == DRound(DSum(a, b))
DMin(a, b) == IF DLess(b, a) THEN b ELSE a

\* n * a on doubles, n a small whole number: the exact product, rounded.
DTimesExact(n, a) ==
    LET s0 == n * a[1]
        s1 == n * a[2] + s0 \div DBase
    IN  <<s0 % DBase, s1 % DBase, n * a[3] + s1 \div DBase>>
DTimes(n, a) == DRound(DTimesExact(n, a))

\* Mutant of FVelUpdate: the fall speed not capped.
FVelUpdate_NoCap(v) == DAdd(v, GRAVITY_D)

\* Lines 55 and 58 of Bird.update on the double: velocity += GRAVITY, then
\* velocity = min(velocity, 10).
FVelUpdate(v) == DMin(DAdd(v, GRAVITY_D), FALL_CAP_D)

\* ------------------------------------------------------------------- Bird
NewBird(x, y) ==
    [x |-> x, y |-> y, velocity |-> 0, angle |-> 0, alive |-> TRUE]

\* Mutant of BirdFlap: the impulse added to the current velocity.
BirdFlap_Additive(b) ==
    IF b.alive THEN [b EXCEPT !.velocity = b.velocity + FLAP_STRENGTH] ELSE b

BirdFlap(b) ==
    IF b.alive THEN [b EXCEPT !.velocity = FLAP_STRENGTH] ELSE b

\* Mutants of BirdUpdate: the tilt not clamped; the fall speed not capped.
BirdUpdate_NoTiltClamp(b) ==
    LET v1 == b.velocity + GRAVITY
        y1 == b.y + v1
        v2 == Min(v1, FALL_CAP)
        a2 == IF v2 < 0 THEN b.angle - TILT_UP_RATE
                        ELSE Min(NOSE_DOWN_MAX, b.angle + TILT_DOWN_RATE)
    IN  [b EXCEPT !.velocity = v2, !.y = y1, !.angle = a2]
BirdUpdate_NoCap(b) ==
    LET v1 == b.velocity + GRAVITY
        y1 == b.y + v1
        a2 == IF v1 < 0 THEN Max(NOSE_UP_MAX, b.angle - TILT_UP_RATE)
                        ELSE Min(NOSE_DOWN_MAX, b.angle + TILT_DOWN_RATE)
    IN  [b EXCEPT !.velocity = v1, !.y = y1, !.angle = a2]

BirdUpdate(b) ==
    LET v1 == b.velocity + GRAVITY
        y1 == b.y + v1
        v2 == Min(v1, FALL_CAP)
        a2 == IF v2 < 0 THEN Max(NOSE_UP_MAX, b.angle - TILT_UP_RATE)
                        ELSE Min(NOSE_DOWN_MAX, b.angle + TILT_DOWN_RATE)
    IN  [b EXCEPT !.velocity = v2, !.y = y1, !.angle = a2]

\* Mutant of BirdRect: the diameter taken for the half-extent on x.
BirdRect_Diameter(b) ==
    Rect(ToInt(b.x - 2 * BIRD_RADIUS * Unit), ToInt(b.y - BIRD_RADIUS * Unit),
         BIRD_RADIUS * 2, BIRD_RADIUS * 2)

BirdRect(b) ==
    Rect(ToInt(b.x - BIRD_RADIUS * Unit), ToInt(b.y - BIRD_RADIUS * Unit),
         BIRD_RADIUS * 2, BIRD_RADIUS * 2)

\* ------------------------------------------------------------------- Pipe
\* id is the identity of the Python object: the number of the spawn, within
\* the run, that created it.
NewPipe(id, x, gap_y) ==
    [id |-> id, x |-> x, gap_y |-> gap_y, passed |-> FALSE]

top_rect(p) == Rect(p.x, 0, PIPE_WIDTH, p.gap_y - PIPE_GAP \div 2)

bottom_rect(p) ==
    Rect(p.x, p.gap_y + PIPE_GAP \div 2, PIPE_WIDTH,
         HEIGHT - BASE_HEIGHT - (p.gap_y + PIPE_GAP \div 2))

\* Mutant of PipeUpdate: the pipe moved to the right.
PipeUpdate_Right(p) == [p EXCEPT !.x = p.x + PIPE_SPEED]

PipeUpdate(p) == [p EXCEPT !.x = p.x - PIPE_SPEED]

\* Mutants of is_offscreen: the left edge tested in place of the right one;
\* the right screen edge tested in place of the left one.
is_offscreen_LeftEdge(p) == p.x < 0
is_offscreen_RightSide(p) == p.x < WIDTH

is_offscreen(p) == p.x + PIPE_WIDTH < 0

\* ------------------------------------------------------------------- Base
NewBase(y) == [y |-> y, x1 |-> 0, x2 |-> WIDTH, speed |-> PIPE_SPEED]

\* Mutant of BaseUpdate: a segment that left the screen put back at WIDTH.
BaseUpdate_WrapToWidth(g) ==
    LET a1 == g.x1 - g.speed
        b1 == g.x2 - g.speed
        a2 == IF a1 + WIDTH < 0 THEN WIDTH ELSE a1
        b2 == IF b1 + WIDTH < 0 THEN WIDTH ELSE b1
    IN  [g EXCEPT !.x1 = a2, !.x2 = b2]

BaseUpdate(g) ==
    LET a1 == g.x1 - g.speed
        b1 == g.x2 - g.speed
        a2 == IF a1 + WIDTH < 0 THEN b1 + WIDTH ELSE a1
        b2 == IF b1 + WIDTH < 0 THEN a2 + WIDTH ELSE b1
    IN  [g EXCEPT !.x1 = a2, !.x2 = b2]

\* ------------------------------------------------------------ spawn_pipe
\* Mutant of GapLo: the margin forgotten.
GapLo_NoMargin == PIPE_GAP \div 2

GapLo == SPAWN_MARGIN + PIPE_GAP \div 2
GapHi == HEIGHT - BASE_HEIGHT - SPAWN_MARGIN - PIPE_GAP \div 2

\* The values random.randint(GapLo, GapHi) is let to return.
GapChoices ==
    { GapLo + (i * (GapHi - GapLo)) \div (NumGaps - 1) : i \in 0..(NumGaps - 1) }

spawn_pipe(id, gap_center) == NewPipe(id, WIDTH, gap_center)

\* -------------------------------------------------------- check_collision
RECURSIVE HitsAnyPipe(_, _, _)
HitsAnyPipe(r, ps, i) ==
    IF i > Len(ps) THEN FALSE
    ELSE IF colliderect(r, top_rect(ps[i])) \/ colliderect(r, bottom_rect(ps[i]))
         THEN TRUE
         ELSE HitsAnyPipe(r, ps, i + 1)

\* Mutant of check_collision: the ground test forgotten.
check_collision_NoGround(b, ps) ==
    IF b.y - BIRD_RADIUS * Unit <= 0
    THEN TRUE
    ELSE HitsAnyPipe(BirdRect(b), ps, 1)

check_collision(b, ps) ==
    IF \/ b.y - BIRD_RADIUS * Unit <= 0
       \/ b.y + BIRD_RADIUS * Unit >= (HEIGHT - BASE_HEIGHT) * Unit
    THEN TRUE
    ELSE HitsAnyPipe(BirdRect(b), ps, 1)

\* ------------------------------------------------------------- reset_game
\* Mutant of reset_game: the bird not re-centred vertically.
reset_game_Uncentred(gap_center) ==
    [bird  |-> NewBird(BIRD_X * Unit, HEIGHT * Unit),
     pipes |-> <<spawn_pipe(1, gap_center)>>,
     score |-> 0,
     base  |-> NewBase(HEIGHT - BASE_HEIGHT)]

reset_game(gap_center) ==
    [bird  |-> NewBird(BIRD_X * Unit, (HEIGHT * Unit) \div 2),
     pipes |-> <<spawn_pipe(1, gap_center)>>,
     score |-> 0,
     base  |-> NewBase(HEIGHT - BASE_HEIGHT)]

\* ------------------------------------------------- steps of the main loop
\* Mutant of SpawnDue: the first element read in place of the last.
SpawnDue_First(ps) == ps[1].x < WIDTH - SPAWN_THRESHOLD

\* Line 386: the spawn check reads the last element of the field.
SpawnDue(ps) == ps[Len(ps)].x < WIDTH - SPAWN_THRESHOLD

\* Line 390: the list comprehension that drops the off-screen pipes.
KeepOnscreen(ps) == SelectSeq(ps, LAMBDA p : ~is_offscreen(p))
Dropped(ps) == SelectSeq(ps, LAMBDA p : is_offscreen(p))

\* Mutants of ShouldScore: the passed guard forgotten; the bird's left edge
\* used in place of its centre.
ShouldScore_NoGuard(p, b) == (p.x + PIPE_WIDTH) * Unit < b.x
ShouldScore_LeftEdge(p, b) ==
    ~p.passed /\ (p.x + PIPE_WIDTH) * Unit < b.x - BIRD_RADIUS * Unit

\* Line 394: the scoring condition for one pipe.
ShouldScore(p, b) == ~p.passed /\ (p.x + PIPE_WIDTH) * Unit < b.x

\* Lines 393-396: the scoring loop, from index i on; gives the field and
\* the score it leaves.
RECURSIVE ScoreLoop(_, _, _, _)
ScoreLoop(ps, b, sc, i) ==
    IF i > Len(ps) THEN [pipes |-> ps, score |-> sc]
    ELSE IF ShouldScore(ps[i], b)
         THEN ScoreLoop([ps EXCEPT ![i].passed = TRUE], b, sc + 1, i + 1)
         ELSE ScoreLoop(ps, b, sc, i + 1)

\* Mutant of Kill: the assignment forgotten.
Kill_Forgotten(b) == b

\* Line 401.
Kill(b) == [b EXCEPT !.alive = FALSE]

\* Mutant of NewHigh: the comparison forgotten.
NewHigh_Always(sc, high) == sc

\* Lines 403-404.
NewHigh(sc, high) == IF sc > high THEN sc ELSE high

\* Mutants of Simulating: the game_over test forgotten; the test inverted.
Simulating_Always(go) == TRUE
Simulating_Inverted(go) == go

\* Line 379: whether this frame advances the simulation.
Simulating(go) == ~go

Init ==
    /\ \E g \in GapChoices :
          LET r == reset_game(g)
          IN  /\ bird = r.bird
              /\ pipes = r.pipes
              /\ score = r.score
              /\ base = r.base
    /\ running = TRUE
    /\ game_over = FALSE
    /\ high_score = 0
    /\ pc = "loop"
    /\ ticks = 0
    /\ spawned = 1
    /\ evicted = <<>>
    /\ skipped = FALSE
    /\ calls = 0
    /\ fvel = DZero

\* Lines 369-375: a KEYDOWN of K_SPACE or K_UP taken from the event queue.
KeyFlap ==
    /\ pc = "loop"
    /\ IF ~game_over
       THEN /\ ticks % FlapEvery = 0
            /\ ticks <= MaxTicks
            /\ bird' = BirdFlap(bird)
            /\ UNCHANGED <<pipes, base, score, game_over, ticks, spawned,
                           evicted, skipped>>
       ELSE \E g \in GapChoices :
               LET r == reset_game(g)
               IN  /\ bird' = r.bird
                   /\ pipes' = r.pipes
                   /\ score' = r.score
                   /\ base' = r.base
                   /\ game_over' = FALSE
                   /\ ticks' = 0
                   /\ spawned' = 1
                   /\ evicted' = <<>>
                   /\ skipped' = FALSE
    /\ UNCHANGED <<high_score, running, pc, calls, fvel>>

\* Lines 367-368 and 376-377: a QUIT event or a KEYDOWN of K_ESCAPE.
Quit ==
    /\ pc = "loop"
    /\ running
    /\ \E ev \in {"QUIT", "K_ESCAPE"} : running' = FALSE
    /\ UNCHANGED <<bird, pipes, base, score, high_score, game_over, pc,
                   ticks, spawned, evicted, skipped, calls, fvel>>

\* Lines 379-404 (and the loop test of line 364): the event queue is empty,
\* the frame's update runs.
Update ==
    /\ pc = "loop"
    /\ pc' = IF running THEN "loop" ELSE "done"
    /\ UNCHANGED <<running, calls, fvel>>
    /\ IF Simulating(game_over)
       THEN /\ ticks < MaxTicks + FallTicks
            /\ LET b1  == BirdUpdate(bird)
                   ps1 == [i \in 1..Len(pipes) |-> PipeUpdate(pipes[i])]
                   due == SpawnDue(ps1)
               IN  \E g \in (IF due THEN GapChoices ELSE {GapLo}) :
                     LET ps2 == IF due THEN Append(ps1, spawn_pipe(spawned + 1, g))
                                       ELSE ps1
                         ps3 == KeepOnscreen(ps2)
                         sl  == ScoreLoop(ps3, b1, score, 1)
                         hit == b1.alive /\ check_collision(b1, sl.pipes)
                     IN  /\ base' = BaseUpdate(base)
                         /\ spawned' = IF due THEN spawned + 1 ELSE spawned
                         /\ evicted' = evicted \o Dropped(ps2)
                         /\ pipes' = sl.pipes
                         /\ score' = sl.score
                         /\ bird' = IF hit THEN Kill(b1) ELSE b1
                         /\ game_over' = IF hit THEN TRUE ELSE game_over
                         /\ high_score' = IF hit THEN NewHigh(sl.score, high_score)
                                                 ELSE high_score
                         /\ ticks' = ticks + 1
                         /\ skipped' = FALSE
       ELSE /\ skipped' = TRUE
            /\ UNCHANGED <<bird, pipes, base, score, high_score, game_over,
                           ticks, spawned, evicted>>

Next == KeyFlap \/ Quit \/ Update

Spec == Init /\ [][Next]_vars

\* The main loop with the player's flaps ceasing after LiveFlapTicks ticks
\* of a run.  clock.tick(FPS) returns in every iteration of the loop, so
\* frames keep coming for as long as the loop runs: Update is weakly fair.
LiveKeyFlap == (game_over \/ ticks <= LiveFlapTicks) /\ KeyFlap

LiveNext == LiveKeyFlap \/ Quit \/ Update

LiveSpec == Init /\ [][LiveNext]_vars /\ WF_vars(Update)

\* ------------------------------------------- single methods, called alone
\* Bird.update() called on the bird of a fresh game, again and again, with
\* no flap in between.
UpdateCall ==
    /\ calls < MaxUpdateCalls
    /\ bird' = BirdUpdate(bird)
    /\ calls' = calls + 1
    /\ fvel' = FVelUpdate(fvel)
    /\ UNCHANGED <<pipes, base, score, high_score, game_over, running, pc,
                   ticks, spawned, evicted, skipped>>

FallSpec == Init /\ [][UpdateCall]_vars

\* Bird.flap() called on a bird in any condition, alive or not (a dead bird
\* is the bird of a game that is over).
FlapBirds ==
    [x : {BIRD_X * Unit}, y : {2000, 6000, 9000},
     velocity : {FLAP_STRENGTH, FLAP_STRENGTH + GRAVITY, -3, 0, GRAVITY, FALL_CAP},
     angle : {NOSE_UP_MAX, 0, NOSE_DOWN_MAX}, alive : BOOLEAN]

FlapInit ==
    /\ bird \in FlapBirds
    /\ game_over = ~bird.alive
    /\ pipes = reset_game(GapLo).pipes
    /\ base = reset_game(GapLo).base
    /\ score = 0
    /\ high_score = 0
    /\ running = TRUE
    /\ pc = "loop"
    /\ ticks = 0
    /\ spawned = 1
    /\ evicted = <<>>
    /\ skipped = FALSE
    /\ calls = 0
    /\ fvel = DZero

FlapCall ==
    /\ calls < MaxFlapCalls
    /\ bird' = BirdFlap(bird)
    /\ calls' = calls + 1
    /\ UNCHANGED <<pipes, base, score, high_score, game_over, running, pc,
                   ticks, spawned, evicted, skipped, fvel>>

FlapSpec == FlapInit /\ [][FlapCall]_vars

\* Base.update() called on the base of a fresh game, again and again.
BaseCall ==
    /\ calls < MaxBaseCalls
    /\ base' = BaseUpdate(base)
    /\ calls' = calls + 1
    /\ UNCHANGED <<bird, pipes, score, high_score, game_over, running, pc,
                   ticks, spawned, evicted, skipped, fvel>>

BaseSpec == Init /\ [][BaseCall]_vars

\* ======================================================== properties
\* A step that stays within one run (anything but the reset of line 374),
\* so that equal ids denote the same Pipe object before and after.
SameRun == ~(game_over /\ ~game_over')

\* A Playing tick: the update block of lines 380-404 ran.
PlayingTick == ~game_over /\ ticks' = ticks + 1

PassedCount(ps) == Cardinality({ i \in DOMAIN ps : ps[i].passed })

Ids(ps) == { ps[i].id : i \in DOMAIN ps }

\* ---- C1
C1_ScoreMatchesPassed ==
    score = PassedCount(pipes) + PassedCount(evicted)

C1_PassedWriteOnce ==
    SameRun =>
      /\ \A i \in DOMAIN pipes : \A j \in DOMAIN pipes' :
            (pipes'[j].id = pipes[i].id /\ pipes[i].passed) => pipes'[j].passed
      /\ score' - score =
            Cardinality({ j \in DOMAIN pipes' :
               /\ pipes'[j].passed
               /\ \A i \in DOMAIN pipes :
                     pipes[i].id = pipes'[j].id => ~pipes[i].passed })

\* C1: score equals the number of pipes spawned in the run (in the field or
\* evicted) whose passed flag is true; passed never goes from true to false;
\* every false->true transition raises score by exactly 1 in the same tick.
C1_ScoreExactlyOnce ==
    []C1_ScoreMatchesPassed /\ [][C1_PassedWriteOnce]_vars

\* Two pipes scored, the first of them already evicted.
C1_Witness ==
    /\ score = 2
    /\ Len(evicted) = 1 /\ evicted[1].passed
    /\ \E i \in DOMAIN pipes : pipes[i].passed

\* ---- C2
\* C2: every pipe in the field whose right edge is strictly left of bird.x
\* has passed = true, and no pipe was evicted with passed still false.
C2_NoPipeSkipped ==
    /\ \A i \in DOMAIN pipes :
          (pipes[i].x + PIPE_WIDTH) * Unit < bird.x => pipes[i].passed
    /\ \A i \in DOMAIN evicted : evicted[i].passed

\* A pipe behind the bird is in the field and another has been evicted.
C2_Witness ==
    /\ Len(evicted) >= 1
    /\ \E i \in DOMAIN pipes : (pipes[i].x + PIPE_WIDTH) * Unit < bird.x

\* ---- C3
\* The bird's square [62, 98) x [int(y - 18), int(y - 18) + 36) against the
\* two rectangles of pipe p, written out.
OverlapsPipe(b, p) ==
    LET bx == ToInt(b.x - BIRD_RADIUS * Unit)
        by == ToInt(b.y - BIRD_RADIUS * Unit)
        d  == 2 * BIRD_RADIUS
    IN  /\ bx < p.x + PIPE_WIDTH /\ p.x < bx + d
        /\ \/ by < p.gap_y - PIPE_GAP \div 2
           \/ by + d > p.gap_y + PIPE_GAP \div 2

InCollision ==
    \/ bird.y - BIRD_RADIUS * Unit <= 0
    \/ bird.y + BIRD_RADIUS * Unit >= (HEIGHT - BASE_HEIGHT) * Unit
    \/ \E i \in DOMAIN pipes : OverlapsPipe(bird, pipes[i])

\* C3: a collision ends the run in the tick that produces it: whenever the
\* collision predicate is true of the bird and the field, bird.alive is
\* false and game_over is true; so in Playing the bird is strictly between
\* ceiling and ground and overlaps no pipe rectangle.
C3_CollisionTerminal ==
    /\ check_collision(bird, pipes) => (game_over /\ ~bird.alive)
    /\ ~game_over => ~InCollision

\* A run ended by a pipe, the bird between ceiling and ground.
C3_Witness ==
    /\ game_over /\ ~bird.alive
    /\ bird.y - BIRD_RADIUS * Unit > 0
    /\ bird.y + BIRD_RADIUS * Unit < (HEIGHT - BASE_HEIGHT) * Unit
    /\ \E i \in DOMAIN pipes : OverlapsPipe(bird, pipes[i])

\* ---- C4
\* C4: a step taken in GameOver that is not the reset leaves bird, field,
\* ground offsets, score and high_score unchanged.
C4_GameOverFrozen ==
    [][(game_over /\ game_over') =>
         UNCHANGED <<bird, pipes, base, score, high_score>>]_vars

\* A frame's update was skipped in GameOver, with pipes still in the field.
C4_Witness == game_over /\ skipped /\ Len(pipes) >= 2

\* ---- C5
C5_Step ==
    /\ high_score' >= high_score
    /\ (~game_over /\ game_over') => high_score' = Max(high_score, score')

\* C5: high_score never decreases, resets included; in the tick that ends a
\* run it becomes max(high_score, score); in GameOver high_score >= score.
C5_HighWaterMark ==
    [](game_over => high_score >= score) /\ [][C5_Step]_vars

\* A later run ended below the best score of an earlier one.
C5_Witness == game_over /\ high_score > score

\* ---- C6
C6_Fresh ==
    /\ bird' = [x |-> 80 * Unit, y |-> 300 * Unit, velocity |-> 0,
                angle |-> 0, alive |-> TRUE]
    /\ Len(pipes') = 1
    /\ pipes'[1].x = WIDTH /\ ~pipes'[1].passed
    /\ pipes'[1].gap_y \in 150..370
    /\ base'.x1 = 0 /\ base'.x2 = WIDTH
    /\ score' = 0
    /\ ~game_over'
    /\ high_score' = high_score

\* C6: the flap/reset key taken in GameOver leaves the state of the initial
\* construction (bird at (80, 300) at rest and alive, one unpassed pipe at
\* x = WIDTH with a valid gap centre, ground at (0, WIDTH), score 0,
\* Playing) and carries high_score over unchanged.
C6_ResetRoundTrip ==
    [][(game_over /\ ~game_over') => C6_Fresh]_vars

\* The state a reset leaves after a run that scored.
C6_Witness ==
    /\ ~game_over /\ ticks = 0 /\ high_score >= 1
    /\ bird.velocity = 0 /\ score = 0 /\ Len(pipes) = 1

\* ---- C7
C7_GapValid(p) ==
    /\ p.gap_y >= 150 /\ p.gap_y <= 370
    /\ top_rect(p).h > 0
    /\ bottom_rect(p).h > 0

C7_GapInRange ==
    /\ \A i \in DOMAIN pipes : C7_GapValid(pipes[i])
    /\ \A i \in DOMAIN evicted : C7_GapValid(evicted[i])

C7_GapFixed ==
    SameRun =>
      \A i \in DOMAIN pipes : \A j \in DOMAIN pipes' :
         pipes'[j].id = pipes[i].id => pipes'[j].gap_y = pipes[i].gap_y

\* C7: every pipe ever in the field has 150 <= gap_y <= 370 and top and
\* bottom rectangles of strictly positive height, and no step changes the
\* gap_y of a pipe.
C7_GapCentreValid ==
    []C7_GapInRange /\ [][C7_GapFixed]_vars

\* Pipes at both ends of the range in the field, the older one advanced
\* past the left screen edge.
C7_Witness ==
    /\ Len(pipes) >= 2
    /\ pipes[1].x < 0
    /\ pipes[1].gap_y = 150
    /\ pipes[2].gap_y = 370

\* ---- C8
\* C8: the field always holds at least one pipe.
C8_FieldNeverEmpty == Len(pipes) >= 1

\* The field just after its oldest pipe was evicted, in a run that follows
\* a reset.
C8_Witness ==
    /\ Len(evicted) = 1 /\ pipes[1].id = 2
    /\ high_score >= 1 /\ ~game_over

\* ---- C9
\* The distance the newest pipe has covered when the spawn check first
\* succeeds.
PipeSpacing == (SPAWN_THRESHOLD \div PIPE_SPEED + 1) * PIPE_SPEED

C9_EvenlySpaced ==
    \A i \in 1..(Len(pipes) - 1) : pipes[i + 1].x - pipes[i].x = PipeSpacing

C9_SpawnExactlyWhenDue ==
    PlayingTick =>
      LET fresh == { j \in DOMAIN pipes' : pipes'[j].id \notin Ids(pipes) }
      IN  /\ (fresh # {}) <=>
                (pipes[Len(pipes)].x - PIPE_SPEED < WIDTH - 200)
          /\ Cardinality(fresh) <= 1
          /\ \A j \in fresh : j = Len(pipes') /\ pipes'[j].x = WIDTH

\* C9: adjacent pipes of the field are one constant distance apart, and a
\* Playing tick appends a pipe (at x = WIDTH) exactly when the newest pipe,
\* once advanced, has x < WIDTH - 200.
C9_ConstantSpacing ==
    []C9_EvenlySpaced /\ [][C9_SpawnExactlyWhenDue]_vars

\* Three pipes in the field.
C9_Witness == Len(pipes) = 3 /\ pipes[3].x < WIDTH

\* ---- C10
C10_OnlyOnscreenInField ==
    /\ \A i \in DOMAIN pipes : ~(pipes[i].x + PIPE_WIDTH < 0)
    /\ \A i \in DOMAIN evicted : evicted[i].x + PIPE_WIDTH < 0
    /\ Ids(pipes) \cap Ids(evicted) = {}

C10_OnscreenKept ==
    PlayingTick =>
      \A i \in DOMAIN pipes :
         pipes[i].x - PIPE_SPEED + PIPE_WIDTH >= 0 => pipes[i].id \in Ids(pipes')

\* C10: no pipe with x + PIPE_WIDTH < 0 is in the field; a pipe is removed
\* by a tick only if x + PIPE_WIDTH < 0 when the filter runs; a removed pipe
\* is never in the field again.
C10_EvictionExact ==
    []C10_OnlyOnscreenInField /\ [][C10_OnscreenKept]_vars

\* The first pipe has been evicted and the run goes on.
C10_Witness ==
    /\ Len(evicted) = 1 /\ evicted[1].id = 1
    /\ ~game_over /\ bird.alive /\ pipes[1].x < 100

\* ---- C11
\* C11 as stated: after ceil(WIDTH / PIPE_SPEED) = 134 ticks the pipe spawned
\* at x = WIDTH is no longer in the field.
C11_EvictedAfter134 ==
    ticks >= (WIDTH + PIPE_SPEED - 1) \div PIPE_SPEED => 1 \notin Ids(pipes)

\* C11, amended: the first pipe of a run is at x = WIDTH - 3 * ticks and in
\* the field through tick 156 (after 134 ticks it is at x = -2), and it has
\* been evicted from tick 157 on, the first tick with x + PIPE_WIDTH < 0.
C11_EvictedAtTick157 ==
    /\ ticks < 157 =>
         /\ evicted = <<>>
         /\ pipes[1].id = 1
         /\ pipes[1].x = WIDTH - PIPE_SPEED * ticks
    /\ ticks >= 157 =>
         /\ 1 \notin Ids(pipes)
         /\ Len(evicted) >= 1 /\ evicted[1].id = 1
         /\ evicted[1].x = WIDTH - PIPE_SPEED * 157

\* The tick that evicts the first pipe has just run.
C11_Witness == ticks = 157 /\ Len(evicted) = 1 /\ ~game_over

\* ---- C12
\* C12 as stated: after N calls of Bird.update() from rest with no flap the
\* velocity the code holds is exactly min(GRAVITY * N, FALL_CAP).
C12_ExactLaw == fvel = DMin(DTimes(calls, GRAVITY_D), FALL_CAP_D)

\* a and b are at most 2^-48 (64 units) apart.
DNear(a, b) ==
    /\ ~DLess(DSum(a, <<64, 0, 0>>), b)
    /\ ~DLess(DSum(b, <<64, 0, 0>>), a)

\* C12, amended: counted in units of 0.05 the velocity is min(7 N, 200);
\* the double the code holds is within 2^-48 of min(GRAVITY * N, FALL_CAP)
\* and is FALL_CAP itself from N = 29 on.
C12_IntegrationLaw ==
    /\ bird.velocity = Min(7 * calls, 200)
    /\ DNear(fvel, DMin(DTimes(calls, GRAVITY_D), FALL_CAP_D))
    /\ calls >= 29 => fvel = FALL_CAP_D

\* The cap has been in force for several calls.
C12_Witness == calls >= 35 /\ bird.velocity = 200 /\ fvel = FALL_CAP_D

\* ---- C13
\* C13: velocity <= FALL_CAP (10) and -25 <= angle <= 90, whatever flaps and
\* ticks have been interleaved.
C13_BirdBounds ==
    /\ bird.velocity <= 200
    /\ bird.angle >= -25
    /\ bird.angle <= 90

\* A bird that has flapped (no run lasts 60 ticks without a flap) is at the
\* fall cap with the nose fully down.
C13_Witness == bird.velocity = 200 /\ bird.angle = 90 /\ ticks > 60

\* ---- C14
\* The square of half-extent RADIUS centred exactly at (b.x, b.y) against
\* the top rectangle [x, x + PIPE_WIDTH] x [0, gap_y - gap/2] and the bottom
\* rectangle [x, x + PIPE_WIDTH] x [gap_y + gap/2, HEIGHT - BASE_HEIGHT] of
\* p, in units of 0.05 (overlap of positive area).
ExactSquareOverlaps(b, p) ==
    LET r == BIRD_RADIUS * Unit
    IN  /\ b.x - r < (p.x + PIPE_WIDTH) * Unit
        /\ p.x * Unit < b.x + r
        /\ \/ /\ b.y - r < (p.gap_y - PIPE_GAP \div 2) * Unit
              /\ b.y + r > 0
           \/ /\ b.y + r > (p.gap_y + PIPE_GAP \div 2) * Unit
              /\ b.y - r < (HEIGHT - BASE_HEIGHT) * Unit

CollisionReference(b, ps) ==
    \/ b.y - BIRD_RADIUS * Unit <= 0
    \/ b.y + BIRD_RADIUS * Unit >= (HEIGHT - BASE_HEIGHT) * Unit
    \/ \E i \in DOMAIN ps : ExactSquareOverlaps(b, ps[i])

\* C14: check_collision is true exactly when the bird is at the ceiling or
\* the ground or its exact square overlaps a rectangle of some pipe.
C14_MatchesReference ==
    check_collision(bird, pipes) <=> CollisionReference(bird, pipes)

\* ---- C15
C15_FlapStep ==
    calls' = calls + 1 =>
      /\ bird.alive =>
           bird' = [x |-> bird.x, y |-> bird.y, velocity |-> -150,
                    angle |-> bird.angle, alive |-> TRUE]
      /\ ~bird.alive => bird' = bird
      /\ calls >= 1 => bird' = bird

\* C15: flap() changes nothing on a dead bird; on a live bird it sets
\* velocity to FLAP_STRENGTH (-7.5) whatever it was and leaves x, y, angle
\* and alive alone, so a second flap changes nothing any more.
C15_FlapOverrides ==
    /\ [][C15_FlapStep]_vars
    /\ [](calls >= 1 /\ bird.alive => bird.velocity = -150)

\* A live bird that was falling at the cap has been flapped twice.
C15_Witness ==
    /\ calls = 2 /\ bird.alive /\ bird.velocity = -150
    /\ bird.angle = 90 /\ bird.y = 9000

\* ---- C16
\* C16: the two ground segments are WIDTH apart and the left one starts in
\* [-WIDTH, 0], after any number of updates.
C16_NoSeam ==
    /\ base.x1 - base.x2 = WIDTH \/ base.x2 - base.x1 = WIDTH
    /\ Min(base.x1, base.x2) >= -WIDTH
    /\ Min(base.x1, base.x2) <= 0

\* Both segments have wrapped once; x2 has just been put behind x1.
C16_Witness == calls = 267 /\ base.x1 = -1 /\ base.x2 = 399

\* ---- C17
HitsPipe(b, p) ==
    \/ colliderect(BirdRect(b), top_rect(p))
    \/ colliderect(BirdRect(b), bottom_rect(p))

\* C17 as stated: the bird's rect never overlaps a rectangle of a pipe
\* whose passed flag is true.
C17_ScoredIsCleared ==
    \A i \in DOMAIN pipes : pipes[i].passed => ~HitsPipe(bird, pipes[i])

\* C17, amended: the bird's rect overlaps a pipe whose passed flag is true
\* only while the pipe's right edge is still right of the rect's left edge
\* (62 < x + PIPE_WIDTH < 80: the 5 ticks with x = 7, 4, 1, -2, -5); once
\* x + PIPE_WIDTH <= 62 it never overlaps it.
C17_ScoredHitOnlyAlongside ==
    \A i \in DOMAIN pipes :
       (pipes[i].passed /\ HitsPipe(bird, pipes[i])) =>
          pipes[i].x \in {7, 4, 1, -2, -5}

\* A run ended by a pipe that had been counted in the score.
C17_Witness ==
    /\ game_over /\ score >= 1
    /\ \E i \in DOMAIN pipes : pipes[i].passed /\ HitsPipe(bird, pipes[i])

\* ---- C18
\* C18 as stated: no Bird.update() increases y by more than FALL_CAP (10).
C18_StepAtMostCap ==
    [][PlayingTick => bird'.y - bird.y <= 200]_vars

\* C18, amended: no Bird.update() increases y by more than FALL_CAP +
\* GRAVITY (10.35): y takes the velocity before it is capped.
C18_StepAtMostCapPlusGravity ==
    [][PlayingTick => bird'.y - bird.y <= 207]_vars

\* Tick 30 of a fall from rest: y = 300 + 0.35 (1 + .. + 29) + 10.35.
C18_Witness ==
    /\ ticks = 30 /\ bird.y = 9252 /\ bird.velocity = 200 /\ bird.alive

\* ---- C19
\* C19: from every Playing state, as long as frames keep coming, the state
\* becomes GameOver unless a flap arrives first (a flap leaves velocity =
\* FLAP_STRENGTH, which no update does) or the loop is left; and no run
\* reaches the end of the simulated ticks.
C19_RunEndsWithoutInput ==
    /\ (~game_over) ~> (game_over \/ bird.velocity = FLAP_STRENGTH \/ pc = "done")
    /\ [](~game_over => ticks < MaxTicks + FallTicks)

\* A run that outlasted the last flap and ended by itself.
C19_Witness ==
    /\ game_over /\ pc = "loop"
    /\ ticks > LiveFlapTicks + 40

\* ---- C20
\* C20: game_over is true exactly when bird.alive is false.
C20_AliveMatchesState == game_over <=> ~bird.alive

\* Playing again, with a live bird, after a run that ended and was reset.
C20_Witness ==
    /\ ~game_over /\ bird.alive /\ high_score >= 1 /\ ticks >= 1

====
